---- MODULE Spec2Model ----
(***************************************************************************)
(* Model of the native FTGS worker/session layer of imhotep:               *)
(*   optimized_ftgs/optimized/src/local_session.c                          *)
(* A Worker owns an array of output streams and one shared error slot; a   *)
(* Session owns the per-query accumulation buffers; run_tgs_pass runs one  *)
(* term-group-stats pass and flushes the touched groups to one stream.     *)
(*                                                                         *)
(* The stream operations (write_field_start, write_field_end,              *)
(* write_stream_end), tgs_init / tgs_execute_pass / tgs_destroy and        *)
(* term_init / term_destroy are declared in headers that are not part of   *)
(* the two source files; they are modelled from the specification text.    *)
(*                                                                         *)
(* Specifications:                                                         *)
(*   Spec         one worker and session: the wrappers and run_tgs_pass    *)
(*   SpecWorker   worker_init, the wrappers, worker_destroy                *)
(*   SpecRaw      the calls with any int as stream_num                     *)
(*   SpecSession  two sessions with their buffers held by address          *)
(*   SpecWorkers  two workers on interleaved threads                       *)
(*   SpecCodec    the Long key codec of cpp/include/btree/int.hpp          *)
(***************************************************************************)
EXTENDS Integers, Sequences, FiniteSets, TLC

(* ------------------------------ bounds --------------------------------- *)
NumStreams == 2       \* num_sockets handed to worker_init
NumGroups  == 2       \* n_groups handed to session_init
NumStats   == 1       \* n_stats handed to session_init
MaxDocs    == 2       \* most matching documents of one pass
MaxCalls   == 2       \* calls made on the worker in one behaviour
MaxKey     == 2       \* largest multiplier of the sampled Long keys

(* ------------------------- program constants --------------------------- *)
CIRC_BUFFER_SIZE     == 64
PREFETCH_BUFFER_SIZE == 64
EBADF                == 9
LONG_BYTES           == 8       \* sizeof(int64_t)

(* ----------------------------- errors ---------------------------------- *)
\* struct runtime_err { code; str }: the message is kept as its pieces
NoError == [code |-> 0, str |-> <<>>]

\* the ways a write can fail: the error the transport reports (errno,
\* strerror) and the non-zero result the stream operation hands back
TransportFailures ==
    { [err |-> [code |-> 32, str |-> <<"Broken pipe">>],        ret |-> -1],
      [err |-> [code |-> 5,  str |-> <<"Input/output error">>], ret |-> -2] }

\* one write attempt of the transport, as the environment decides it
TransportOutcomes ==
    { [ok |-> TRUE, err |-> NoError, ret |-> 0] } \cup
    { [ok |-> FALSE, err |-> f.err, ret |-> f.ret] : f \in TransportFailures }

(* ------------------------ "%d" of snprintf ----------------------------- *)
Digit == <<"0", "1", "2", "3", "4", "5", "6", "7", "8", "9">>

RECURSIVE IntToStr(_)
IntToStr(n) ==
    IF n < 0 THEN "-" \o IntToStr(0 - n)
    ELSE IF n < 10 THEN Digit[n + 1]
    ELSE IntToStr(n \div 10) \o Digit[(n % 10) + 1]

(* --------------------------- output stream ----------------------------- *)
\* what the transport has received: markers and group records, one shape;
\* a record is identified by its group, its statistic bytes are not kept
Marker(kind) == [kind |-> kind, grp |-> -1]
Record(grp) == [kind |-> "record", grp |-> grp]

stream_init(fd) ==
    [socket  |-> [socket_fd |-> fd, err |-> NoError],
     state   |-> "IDLE",
     written |-> <<>>]

\* one framed write: on success the item reaches the transport, on failure
\* the stream captures the transport's error and reports a non-zero result
stream_write(stream, item, t) ==
    IF t.ok
    THEN [stream |-> [stream EXCEPT !.written = Append(@, item)], ret |-> 0]
    ELSE [stream |-> [stream EXCEPT !.socket.err = t.err], ret |-> t.ret]

write_field_start(stream, field_name, len, term_type, t) ==
    LET r == stream_write(stream, Marker("field_start"), t) IN
    IF r.ret = 0 /\ stream.state = "IDLE"
    THEN [r EXCEPT !.stream.state = "FIELD_OPEN"]
    ELSE r

write_field_end(stream, t) ==
    LET r == stream_write(stream, Marker("field_end"), t) IN
    IF r.ret = 0 /\ stream.state = "FIELD_OPEN"
    THEN [r EXCEPT !.stream.state = "IDLE"]
    ELSE r

write_stream_end(stream, t) ==
    LET r == stream_write(stream, Marker("stream_end"), t) IN
    IF r.ret = 0
    THEN [r EXCEPT !.stream.state = "STREAM_CLOSED"]
    ELSE r

(* ------------------------------ worker --------------------------------- *)
\* the caller's zeroed struct worker_desc before worker_init
RawWorker == [num_streams |-> 0, out_streams |-> <<>>, error |-> NoError]

\* worker_init fills num_streams and out_streams of the caller's struct and
\* does not write its error slot: the slot keeps what the struct held
worker_init(worker, socket_fds, num_sockets) ==
    [worker EXCEPT
        !.num_streams = num_sockets,
        !.out_streams = [i \in 0..(num_sockets - 1) |->
                            stream_init(socket_fds[i + 1])]]

\* a rejection that reports failure without recording the code
invalid_socket_no_code(worker, str) ==
    [worker |-> [worker EXCEPT !.error.str = str], ret |-> -1]

\* the rejection branch of the three wrappers
invalid_socket(worker, str) ==
    [worker |-> [worker EXCEPT !.error = [code |-> EBADF, str |-> str]],
     ret    |-> -1]

\* worker->error = stream->socket.err; stream->socket.err.code = 0
hand_off(worker, stream_num, stream) ==
    [worker EXCEPT !.error = stream.socket.err,
                   !.out_streams[stream_num] =
                        [stream EXCEPT !.socket.err.code = 0]]

worker_start_field(worker, field_name, len, term_type, stream_num, t) ==
    IF stream_num >= worker.num_streams
    THEN invalid_socket(worker,
             <<"Invalid socket number. stream_num: ", IntToStr(stream_num),
               " num_streams: ", IntToStr(worker.num_streams)>>)
    ELSE LET r == write_field_start(worker.out_streams[stream_num],
                                    field_name, len, term_type, t) IN
         IF r.ret # 0
         THEN [worker |-> hand_off(worker, stream_num, r.stream), ret |-> r.ret]
         ELSE [worker |-> [worker EXCEPT !.out_streams[stream_num] = r.stream],
               ret    |-> 0]

\* a wrapper that clears the worker's error slot when it succeeds
worker_end_field_clears(worker, stream_num, t) ==
    IF stream_num >= worker.num_streams
    THEN invalid_socket(worker, <<"Invalid socket number.">>)
    ELSE LET r == write_field_end(worker.out_streams[stream_num], t) IN
         IF r.ret = -1
         THEN [worker |-> hand_off(worker, stream_num, r.stream), ret |-> -1]
         ELSE [worker |-> [worker EXCEPT !.out_streams[stream_num] = r.stream,
                                         !.error.code = 0],
               ret    |-> 0]

worker_end_field(worker, stream_num, t) ==
    IF stream_num >= worker.num_streams
    THEN invalid_socket(worker, <<"Invalid socket number.">>)
    ELSE LET r == write_field_end(worker.out_streams[stream_num], t) IN
         IF r.ret = -1
         THEN [worker |-> hand_off(worker, stream_num, r.stream), ret |-> -1]
         ELSE [worker |-> [worker EXCEPT !.out_streams[stream_num] = r.stream],
               ret    |-> 0]

worker_end_stream(worker, stream_num, t) ==
    IF stream_num >= worker.num_streams
    THEN invalid_socket(worker, <<"Invalid socket number.">>)
    ELSE LET r == write_stream_end(worker.out_streams[stream_num], t) IN
         IF r.ret = -1
         THEN [worker |-> hand_off(worker, stream_num, r.stream), ret |-> -1]
         ELSE [worker |-> [worker EXCEPT !.out_streams[stream_num] = r.stream],
               ret    |-> 0]

\* release of one stream's resources, counted per stream
stream_destroy(released, i) == [released EXCEPT ![i] = @ + 1]

\* for (i = from; i < num_streams; i++) stream_destroy(&out_streams[i])
RECURSIVE destroy_streams(_, _, _)
destroy_streams(released, i, n) ==
    IF i >= n THEN released
    ELSE destroy_streams(stream_destroy(released, i), i + 1, n)

\* a destroy whose loop starts at the second stream
worker_destroy_from_one(worker, life) ==
    [life EXCEPT !.state = "destroyed",
                 !.released = destroy_streams(@, 1, worker.num_streams),
                 !.array_frees = @ + 1]

\* every stream is released, then the array that held them
worker_destroy(worker, life) ==
    [life EXCEPT !.state = "destroyed",
                 !.released = destroy_streams(@, 0, worker.num_streams),
                 !.array_frees = @ + 1]

(* ------------------------------ session -------------------------------- *)
\* layout template of the sample packed table: its statistic columns
PackedTable(n_cols) == [n_cols |-> n_cols]

unpacked_table_create(metric_desc, n_rows) ==
    [g \in 0..(n_rows - 1) |-> [c \in 1..metric_desc.n_cols |-> 0]]

unpacked_table_copy_layout(table, n_rows) ==
    [n_rows |-> n_rows,
     n_cols |-> IF DOMAIN table = {} THEN 0 ELSE Len(table[0])]

circular_buffer_int_alloc(capacity) == [capacity |-> capacity, items |-> <<>>]

\* a scratch buffer with as many rows as the group table
allocate_grp_stats_same_rows(session, metric_desc) ==
    LET grp_stats == unpacked_table_create(metric_desc, session.num_groups) IN
    [session EXCEPT !.grp_stats = grp_stats,
                    !.temp_buf  = unpacked_table_copy_layout(grp_stats,
                                                             session.num_groups)]

\* allocate_grp_stats sets session->temp_buf and returns the group table
allocate_grp_stats(session, metric_desc) ==
    LET grp_stats == unpacked_table_create(metric_desc, session.num_groups) IN
    [session EXCEPT !.grp_stats = grp_stats,
                    !.temp_buf  = unpacked_table_copy_layout(grp_stats,
                                                             PREFETCH_BUFFER_SIZE)]

\* a session whose dirty-group array is allocated but not zeroed
session_init_dirty(n_groups, n_stats, only_binary_metrics, sample_table) ==
    LET s0 == [num_groups          |-> n_groups,
               num_stats           |-> n_stats,
               only_binary_metrics |-> only_binary_metrics,
               grp_stats           |-> <<>>,
               temp_buf            |-> [n_rows |-> 0, n_cols |-> 0],
               grp_buf             |-> [capacity |-> 0, items |-> <<>>],
               nz_grps_buf         |-> <<>>]
        s1 == allocate_grp_stats(s0, sample_table)
    IN  [s1 EXCEPT !.grp_buf     = circular_buffer_int_alloc(CIRC_BUFFER_SIZE),
                   !.nz_grps_buf = [g \in 0..(n_groups - 1) |-> 1]]

session_init(n_groups, n_stats, only_binary_metrics, sample_table) ==
    LET s0 == [num_groups          |-> n_groups,
               num_stats           |-> n_stats,
               only_binary_metrics |-> only_binary_metrics,
               grp_stats           |-> <<>>,
               temp_buf            |-> [n_rows |-> 0, n_cols |-> 0],
               grp_buf             |-> [capacity |-> 0, items |-> <<>>],
               nz_grps_buf         |-> <<>>]
        s1 == allocate_grp_stats(s0, sample_table)
    IN  [s1 EXCEPT !.grp_buf     = circular_buffer_int_alloc(CIRC_BUFFER_SIZE),
                   !.nz_grps_buf = [g \in 0..(n_groups - 1) |-> 0]]

(* --------------------------- the TGS pass ------------------------------ *)
\* one matching document adds its statistics to the row of its group and
\* marks the group dirty; binary metrics are OR-ed instead of added
update_group(session, g) ==
    [session EXCEPT
        !.grp_stats[g] = [c \in DOMAIN @ |->
                             IF session.only_binary_metrics THEN 1 ELSE @[c] + 1],
        !.nz_grps_buf[g] = 1]

RECURSIVE scan_shard(_, _)
scan_shard(session, docs) ==
    IF docs = <<>> THEN session
    ELSE scan_shard(update_group(session, Head(docs)), Tail(docs))

RECURSIVE scan_shards(_, _)
scan_shards(session, shards) ==
    IF shards = <<>> THEN session
    ELSE scan_shards(scan_shard(session, Head(shards)), Tail(shards))

\* the flagged groups in the iteration order of the dirty-group array
RECURSIVE dirty_groups(_, _, _)
dirty_groups(nz_grps_buf, g, n) ==
    IF g >= n THEN <<>>
    ELSE (IF nz_grps_buf[g] # 0 THEN <<g>> ELSE <<>>)
             \o dirty_groups(nz_grps_buf, g + 1, n)

\* a flush that notes a failed write and goes on with the next group
RECURSIVE flush_groups_keeps_going(_, _, _, _, _)
flush_groups_keeps_going(stream, session, d, i, fail) ==
    IF i > Len(d) THEN [stream |-> stream, ret |-> 0]
    ELSE LET t == IF fail.at = i
                  THEN [ok |-> FALSE, err |-> fail.err, ret |-> fail.ret]
                  ELSE [ok |-> TRUE, err |-> NoError, ret |-> 0]
             r == stream_write(stream, Record(d[i]), t)
             rest == flush_groups_keeps_going(r.stream, session, d, i + 1, fail)
         IN  IF r.ret # 0 THEN [stream |-> rest.stream, ret |-> r.ret]
             ELSE rest

\* writes the records of groups d[i..]; the nth write of the pass is the one
\* the transport fails (fail 0: none); the first failure ends the flush
RECURSIVE flush_groups(_, _, _, _, _)
flush_groups(stream, session, d, i, fail) ==
    IF i > Len(d) THEN [stream |-> stream, ret |-> 0]
    ELSE LET t == IF fail.at = i
                  THEN [ok |-> FALSE, err |-> fail.err, ret |-> fail.ret]
                  ELSE [ok |-> TRUE, err |-> NoError, ret |-> 0]
             r == stream_write(stream, Record(d[i]), t)
         IN  IF r.ret # 0 THEN r
             ELSE flush_groups(r.stream, session, d, i + 1, fail)

\* a reset that zeroes the rows and leaves the flags
reset_dirty_rows_only(session) ==
    [session EXCEPT
        !.grp_stats = [g \in DOMAIN @ |->
                          IF session.nz_grps_buf[g] # 0
                          THEN [c \in DOMAIN @[g] |-> 0] ELSE @[g]]]

\* clears the flag and the row of every flagged group
reset_dirty(session) ==
    [session EXCEPT
        !.grp_stats = [g \in DOMAIN @ |->
                          IF session.nz_grps_buf[g] # 0
                          THEN [c \in DOMAIN @[g] |-> 0] ELSE @[g]],
        !.nz_grps_buf = [g \in DOMAIN @ |-> 0]]

tgs_execute_pass(session, stream, shards, fail) ==
    LET s1 == scan_shards(session, shards)
        d  == dirty_groups(s1.nz_grps_buf, 0, s1.num_groups)
        f  == flush_groups(stream, s1, d, 1, fail)
    IN  [session |-> reset_dirty(s1), stream |-> f.stream, err |-> f.ret]

\* a capture that recognises only the result -1 as a failure
capture_stream_error_minus_one(worker, stream_num, err) ==
    IF err = -1 /\ worker.out_streams[stream_num].socket.err.code # 0
    THEN [worker EXCEPT !.error = worker.out_streams[stream_num].socket.err]
    ELSE worker

\* if (err != 0) if (stream->socket.err.code != 0) worker->error = ...
capture_stream_error(worker, stream_num, err) ==
    IF err # 0 /\ worker.out_streams[stream_num].socket.err.code # 0
    THEN [worker EXCEPT !.error = worker.out_streams[stream_num].socket.err]
    ELSE worker

\* resource accounting of term_init / tgs_init / tgs_destroy / term_destroy
NoResources == [term_init |-> 0, term_destroy |-> 0,
                tgs_init |-> 0, tgs_destroy |-> 0, passes |-> 0]

pass_setup(res) ==
    [res EXCEPT !.term_init = @ + 1, !.tgs_init = @ + 1, !.passes = @ + 1]

\* a cleanup that destroys the pass descriptor and forgets the term
pass_cleanup_no_term(res) ==
    [res EXCEPT !.tgs_destroy = @ + 1]

pass_cleanup(res) ==
    [res EXCEPT !.tgs_destroy = @ + 1, !.term_destroy = @ + 1]

(* ------------------------- btree key codec ----------------------------- *)
\* the bytes an int64_t value occupies in memory: two's complement, least
\* significant byte first
RECURSIVE Serialized(_, _)
Serialized(v, n) ==
    IF n = 0 THEN <<>>
    ELSE <<v % 256>> \o Serialized(v \div 256, n - 1)

\* the value of a byte read as the top byte of a signed integer
TopByte(b) == IF b >= 128 THEN b - 256 ELSE b

RECURSIVE LowerBytes(_, _, _)
LowerBytes(bytes, i, acc) ==
    IF i = 0 THEN acc
    ELSE LowerBytes(bytes, i - 1, acc * 256 + bytes[i])

\* Int<int64_t>::operator(): *reinterpret_cast<const int64_t*>(_begin)
Long_value(bytes) ==
    LowerBytes(bytes, LONG_BYTES - 1, TopByte(bytes[LONG_BYTES]))

\* an order on the bytes in memory order, as memcmp gives it
RECURSIVE Long_less_bytewise(_, _)
Long_less_bytewise(a, b) ==
    IF a = <<>> \/ b = <<>> THEN FALSE
    ELSE IF Head(a) # Head(b) THEN Head(a) < Head(b)
    ELSE Long_less_bytewise(Tail(a), Tail(b))

Long_less(a, b) == Long_value(a) < Long_value(b)

Long_greater(a, b) == Long_value(a) > Long_value(b)

Long_equal(a, b) == Long_value(a) = Long_value(b)

Long_length(a) == LONG_BYTES

(* ----------------------- sessions and their buffers -------------------- *)
\* the sessions created from one sample table
SessionIds == {1, 2}

\* a session owns four buffers
Addrs == 1..(4 * Cardinality(SessionIds))

EmptyHeap ==
    [a \in Addrs |-> [status |-> "unused", kind |-> "none", frees |-> 0,
                      data |-> <<>>]]

\* an allocation returns the next unused address, or NULL (0) when it fails
alloc(h, kind, data, ok) ==
    IF ok
    THEN LET a == CHOOSE x \in Addrs :
                     /\ h[x].status = "unused"
                     /\ \A y \in Addrs : h[y].status = "unused" => x <= y
         IN  [heap |-> [h EXCEPT ![a] = [status |-> "live", kind |-> kind,
                                         frees |-> 0, data |-> data]],
              ptr  |-> a]
    ELSE [heap |-> h, ptr |-> 0]

\* free(p): nothing happens for NULL
free(h, p) ==
    IF p = 0 THEN h
    ELSE [h EXCEPT ![p].status = "freed", ![p].frees = @ + 1]

unpacked_table_destroy(h, table) == free(h, table)

circular_buffer_int_cleanup(h, buff) == free(h, buff)

\* an init that takes the group table of an earlier session when there is one
session_init_shared(h, n_groups, n_stats, only_binary_metrics, sample_table, ok) ==
    LET v  == session_init(n_groups, n_stats, only_binary_metrics, sample_table)
        tables == { a \in Addrs : /\ h[a].status = "live"
                                  /\ h[a].kind = "grp_stats"
                                  /\ DOMAIN h[a].data = DOMAIN v.grp_stats }
        a1 == IF tables # {}
              THEN [heap |-> h, ptr |-> CHOOSE a \in tables : TRUE]
              ELSE alloc(h, "grp_stats", v.grp_stats, ok.grp_stats)
        a2 == alloc(a1.heap, "temp_buf", v.temp_buf, ok.temp_buf)
        a3 == alloc(a2.heap, "grp_buf", v.grp_buf, ok.grp_buf)
        a4 == alloc(a3.heap, "nz_grps_buf", v.nz_grps_buf, ok.nz_grps_buf)
    IN  [heap    |-> a4.heap,
         session |-> [v EXCEPT !.grp_stats = a1.ptr, !.temp_buf = a2.ptr,
                               !.grp_buf = a3.ptr, !.nz_grps_buf = a4.ptr]]

\* session_init with its four allocations in the order the code makes them,
\* each made whatever the earlier ones returned: unpacked_table_copy_layout
\* is called with the group table also when that is NULL
session_init_at(h, n_groups, n_stats, only_binary_metrics, sample_table, ok) ==
    LET v  == session_init(n_groups, n_stats, only_binary_metrics, sample_table)
        a1 == alloc(h, "grp_stats", v.grp_stats, ok.grp_stats)
        a2 == alloc(a1.heap, "temp_buf", v.temp_buf, ok.temp_buf)
        a3 == alloc(a2.heap, "grp_buf", v.grp_buf, ok.grp_buf)
        a4 == alloc(a3.heap, "nz_grps_buf", v.nz_grps_buf, ok.nz_grps_buf)
    IN  [heap    |-> a4.heap,
         session |-> [v EXCEPT !.grp_stats = a1.ptr, !.temp_buf = a2.ptr,
                               !.grp_buf = a3.ptr, !.nz_grps_buf = a4.ptr]]

\* a destroy that forgets the scratch buffer
session_destroy_no_temp(h, session) ==
    LET h1 == unpacked_table_destroy(h, session.grp_stats)
        h2 == circular_buffer_int_cleanup(h1, session.grp_buf)
    IN  free(h2, session.nz_grps_buf)

session_destroy(h, session) ==
    LET h1 == unpacked_table_destroy(h, session.grp_stats)
        h2 == circular_buffer_int_cleanup(h1, session.grp_buf)
        h3 == free(h2, session.nz_grps_buf)
    IN  unpacked_table_destroy(h3, session.temp_buf)

\* the session with its buffers read through its pointers
Loaded(h, session) ==
    [session EXCEPT !.grp_stats   = h[session.grp_stats].data,
                    !.temp_buf    = h[session.temp_buf].data,
                    !.grp_buf     = h[session.grp_buf].data,
                    !.nz_grps_buf = h[session.nz_grps_buf].data]

\* the buffers of v written through the pointers of session
Stored(h, session, v) ==
    [h EXCEPT ![session.grp_stats].data   = v.grp_stats,
              ![session.nz_grps_buf].data = v.nz_grps_buf]

(* ------------------------------ state ---------------------------------- *)
VARIABLES
    worker,     \* struct worker_desc: num_streams, out_streams, error
    session,    \* struct session_desc
    pc,         \* position of the caller's thread inside run_tgs_pass
    pass,       \* locals of the run_tgs_pass in flight: desc.stream, err,
                \* and what the pass was given and the transport did to it
    res,        \* terms and pass descriptors constructed and destroyed
    call,       \* the call that returned last, with what it was given
    ncalls,     \* calls that have returned
    wlife,      \* the worker's lifetime: before worker_init, live, destroyed;
                \* the handles it was given and what worker_destroy released
    oob,        \* the memory next to the out_streams array, read as stream
                \* slots, and the accesses that fell into it
    heap,       \* the buffers of the sessions in `sess`, by address
    sess,       \* sessions whose buffers are held by address: struct
                \* session_desc and the position in its lifetime
    sample,     \* the sample packed table the sessions are created from
    peer,       \* the worker, session and call position of the thread that
                \* is not running
    who,        \* the thread that is running
    keys,       \* two Long keys: the values serialized and their bytes
    cmp         \* the codec operation applied to them last and its result

vars == <<worker, session, pc, pass, res, call, ncalls, wlife, oob,
          heap, sess, sample, peer, who, keys, cmp>>

\* the state outside the worker and session that the calls operate on
others == <<wlife, oob, heap, sess, sample, peer, who, keys, cmp>>

(* ------------------------------ inputs --------------------------------- *)
SocketFds == [i \in 1..NumStreams |-> 10 + i]

\* stream_num arguments of the wrappers: every stream, and indexes at and
\* past num_streams
StreamNums == 0..(NumStreams + 3)

\* stream_num arguments of run_tgs_pass: the first and the last stream
PassStreamNums == {0, NumStreams - 1}

Groups == 0..(NumGroups - 1)

RECURSIVE SeqsUpTo(_, _)
SeqsUpTo(S, n) ==
    IF n = 0 THEN { <<>> }
    ELSE LET shorter == SeqsUpTo(S, n - 1) IN
         shorter \cup { Append(q, x) : q \in { r \in shorter : Len(r) = n - 1 }, x \in S }

\* the groups of the matching documents of a pass, in scan order: a group
\* may match several times, and the scan meets the groups from the highest
\* down, the reverse of the order the flush writes them in
PassDocs ==
    { d \in SeqsUpTo(Groups, MaxDocs) :
         \A i \in 1..(Len(d) - 1) : d[i] >= d[i + 1] }

\* the documents in one shard, or the first document in a shard of its own
ShardLists ==
    { <<docs>> : docs \in PassDocs } \cup
    { <<SubSeq(docs, 1, 1), SubSeq(docs, 2, Len(docs))>> :
          docs \in { d \in PassDocs : Len(d) >= 2 } }

\* the groups that have a matching document in some shard of the pass
GroupsOf(shards) ==
    UNION { { shards[i][j] : j \in DOMAIN shards[i] } : i \in DOMAIN shards }

\* the write of a flush that the transport fails (at 0: none)
FlushFailures ==
    { [at |-> 0, err |-> NoError, ret |-> 0] } \cup
    { [at |-> n, err |-> f.err, ret |-> f.ret] :
          n \in 1..MaxDocs, f \in TransportFailures }

NoPass == [desc |-> [stream_num |-> 0], err |-> 0,
           groups |-> {}, failed_at |-> 0, terr |-> NoError]

\* no memory outside the array is looked at
NoOob == [mem |-> <<>>, touched |-> {}]

\* no session is held by address
NoSession ==
    [phase |-> "none",
     desc  |-> [grp_stats |-> 0, temp_buf |-> 0, grp_buf |-> 0, nz_grps_buf |-> 0]]

NoSessions ==
    /\ heap = EmptyHeap
    /\ sess = [i \in SessionIds |-> NoSession]
    /\ sample = PackedTable(NumStats)

\* one thread only
NoPeer ==
    /\ peer = <<>>
    /\ who = 1

\* no key is looked at
NoKeys ==
    /\ keys = <<>>
    /\ cmp = [op |-> "none", result |-> FALSE, value |-> 0]

\* a worker that worker_init has set up over the given handles
LiveWorker(fds) ==
    [state |-> "live", fds |-> fds,
     released |-> [i \in 0..(Len(fds) - 1) |-> 0], array_frees |-> 0]

NoCall == [op |-> "none", stream_num |-> 0, ret |-> 0,
           delegated |-> FALSE, op_ret |-> 0, terr |-> NoError,
           groups |-> {}, failed_at |-> 0]

\* the session counts its metrics; sessions of binary metrics are among
\* those of SpecSession
Init ==
    /\ worker = worker_init(RawWorker, SocketFds, NumStreams)
    /\ session = session_init(NumGroups, NumStats, FALSE, PackedTable(NumStats))
    /\ pc = "idle"
    /\ pass = NoPass
    /\ res = NoResources
    /\ call = NoCall
    /\ ncalls = 0
    /\ wlife = LiveWorker(SocketFds)
    /\ oob = NoOob
    /\ NoSessions
    /\ NoPeer
    /\ NoKeys

(* ------------------------- worker-level wrappers ----------------------- *)
\* the record of a returned wrapper call; the stream operation is reached
\* only with a stream_num below num_streams
WrapperCall(op, stream_num, t, r) ==
    LET delegated == stream_num < worker.num_streams IN
    [op |-> op, stream_num |-> stream_num, ret |-> r.ret,
     delegated |-> delegated,
     op_ret |-> IF delegated THEN t.ret ELSE 0,
     terr   |-> IF delegated THEN t.err ELSE NoError,
     groups |-> {}, failed_at |-> 0]

\* the transport is not reached by a rejected call
OutcomesFor(stream_num) ==
    IF stream_num < worker.num_streams THEN TransportOutcomes
    ELSE { [ok |-> TRUE, err |-> NoError, ret |-> 0] }

WorkerStartField ==
    /\ wlife.state = "live"
    /\ pc = "idle"
    /\ ncalls < MaxCalls
    /\ \E stream_num \in StreamNums, term_type \in {"INT"} :
       \E t \in OutcomesFor(stream_num) :
          LET r == worker_start_field(worker, "age", 3, term_type, stream_num, t) IN
          /\ worker' = r.worker
          /\ call' = WrapperCall("worker_start_field", stream_num, t, r)
    /\ ncalls' = ncalls + 1
    /\ UNCHANGED <<session, pc, pass, res>>
    /\ UNCHANGED others

\* a wrapper that also leaves its error in a slot common to all workers
WorkerEndFieldCommonSlot ==
    /\ wlife.state = "live"
    /\ pc = "idle"
    /\ ncalls < MaxCalls
    /\ \E stream_num \in StreamNums :
       \E t \in OutcomesFor(stream_num) :
          LET r == worker_end_field(worker, stream_num, t) IN
          /\ worker' = r.worker
          /\ call' = WrapperCall("worker_end_field", stream_num, t, r)
          /\ peer' = [peer EXCEPT !.worker.error = r.worker.error]
    /\ ncalls' = ncalls + 1
    /\ UNCHANGED <<session, pc, pass, res>>
    /\ UNCHANGED <<wlife, oob, heap, sess, sample, who, keys, cmp>>

WorkerEndField ==
    /\ wlife.state = "live"
    /\ pc = "idle"
    /\ ncalls < MaxCalls
    /\ \E stream_num \in StreamNums :
       \E t \in OutcomesFor(stream_num) :
          LET r == worker_end_field(worker, stream_num, t) IN
          /\ worker' = r.worker
          /\ call' = WrapperCall("worker_end_field", stream_num, t, r)
    /\ ncalls' = ncalls + 1
    /\ UNCHANGED <<session, pc, pass, res>>
    /\ UNCHANGED others

WorkerEndStream ==
    /\ wlife.state = "live"
    /\ pc = "idle"
    /\ ncalls < MaxCalls
    /\ \E stream_num \in StreamNums :
       \E t \in OutcomesFor(stream_num) :
          LET r == worker_end_stream(worker, stream_num, t) IN
          /\ worker' = r.worker
          /\ call' = WrapperCall("worker_end_stream", stream_num, t, r)
    /\ ncalls' = ncalls + 1
    /\ UNCHANGED <<session, pc, pass, res>>
    /\ UNCHANGED others

(* ---------------------------- run_tgs_pass ----------------------------- *)
\* term_init, the stream lookup and tgs_init
RunTgsPassBegin ==
    /\ wlife.state = "live"
    /\ pc = "idle"
    /\ ncalls < MaxCalls
    /\ \E stream_num \in PassStreamNums :
          pass' = [NoPass EXCEPT !.desc.stream_num = stream_num]
    /\ res' = pass_setup(res)
    /\ pc' = "execute"
    /\ UNCHANGED <<worker, session, call, ncalls>>
    /\ UNCHANGED others

\* err = tgs_execute_pass(worker, session, &desc); the shards of the call
\* are read here and nowhere else, so they are drawn here; a flush makes
\* one write for each group of its documents, later writes do not exist
TgsExecutePass ==
    /\ pc = "execute"
    /\ \E shards \in ShardLists, fail \in FlushFailures :
          LET sn == pass.desc.stream_num
              r  == tgs_execute_pass(session, worker.out_streams[sn], shards, fail)
          IN  /\ fail.at <= Cardinality(GroupsOf(shards))
              /\ session' = r.session
              /\ worker' = [worker EXCEPT !.out_streams[sn] = r.stream]
              /\ pass' = [pass EXCEPT !.err = r.err,
                                      !.groups = GroupsOf(shards),
                                      !.failed_at = fail.at,
                                      !.terr = fail.err]
    /\ pc' = "executed"
    /\ UNCHANGED <<res, call, ncalls>>
    /\ UNCHANGED others

\* the error capture, tgs_destroy, term_destroy and the return of err
RunTgsPassEnd ==
    /\ pc = "executed"
    /\ worker' = capture_stream_error(worker, pass.desc.stream_num, pass.err)
    /\ res' = pass_cleanup(res)
    /\ call' = [op |-> "run_tgs_pass", stream_num |-> pass.desc.stream_num,
                ret |-> pass.err, delegated |-> TRUE, op_ret |-> pass.err,
                terr |-> pass.terr, groups |-> pass.groups,
                failed_at |-> pass.failed_at]
    /\ pass' = NoPass
    /\ pc' = "idle"
    /\ ncalls' = ncalls + 1
    /\ UNCHANGED session
    /\ UNCHANGED others

Next ==
    \/ WorkerStartField
    \/ WorkerEndField
    \/ WorkerEndStream
    \/ RunTgsPassBegin
    \/ TgsExecutePass
    \/ RunTgsPassEnd

Spec == Init /\ [][Next]_vars

(* ------------------------- lifetime of a worker ------------------------ *)
\* the handle arrays a worker is created over: up to NumStreams handles,
\* in ascending or in descending order
HandleArrays ==
    { [i \in 1..n |-> 10 + i] : n \in 0..NumStreams } \cup
    { [i \in 1..n |-> 10 + n + 1 - i] : n \in 0..NumStreams }

\* what the error slot of a struct holds that the caller has not zeroed
\* or has used before
LeftoverErrors == { NoError } \cup { f.err : f \in TransportFailures }

InitWorker ==
    /\ \E e \in LeftoverErrors : worker = [RawWorker EXCEPT !.error = e]
    /\ \E only_binary_metrics \in BOOLEAN :
           session = session_init(NumGroups, NumStats, only_binary_metrics,
                                  PackedTable(NumStats))
    /\ pc = "idle"
    /\ pass = NoPass
    /\ res = NoResources
    /\ call = NoCall
    /\ ncalls = 0
    /\ wlife = [state |-> "raw", fds |-> <<>>, released |-> <<>>,
                array_frees |-> 0]
    /\ oob = NoOob
    /\ NoSessions
    /\ NoPeer
    /\ NoKeys

\* on a struct not yet used, or again on one that was destroyed
WorkerInit ==
    /\ wlife.state \in {"raw", "destroyed"}
    /\ \E socket_fds \in HandleArrays :
          /\ worker' = worker_init(worker, socket_fds, Len(socket_fds))
          /\ wlife' = LiveWorker(socket_fds)
    /\ UNCHANGED <<session, pc, pass, res, call, ncalls, oob, heap, sess, sample,
                 peer, who, keys, cmp>>

WorkerDestroy ==
    /\ wlife.state = "live"
    /\ pc = "idle"
    /\ wlife' = worker_destroy(worker, wlife)
    /\ UNCHANGED <<worker, session, pc, pass, res, call, ncalls, oob, heap, sess, sample,
                 peer, who, keys, cmp>>

NextWorker ==
    \/ WorkerInit
    \/ WorkerStartField
    \/ WorkerEndField
    \/ WorkerEndStream
    \/ WorkerDestroy

SpecWorker == InitWorker /\ [][NextWorker]_vars

(* ---------------- calls with any int as stream_num --------------------- *)
\* out_streams[i] with i outside 0..num_streams-1 is undefined behaviour:
\* the access lands in the memory next to the array. That memory is
\* modelled as further slots whose content is arbitrary: what a zeroed
\* stream would hold, or a stream with an error already in it.
OobSlots == {-1, NumStreams}

GarbageStreams ==
    { stream_init(0),
      [stream_init(0) EXCEPT !.socket.err = [code |-> 1, str |-> <<"?">>]] }

\* the worker as the code addresses it: the array and its surroundings
WithMemory(w, o) ==
    [w EXCEPT !.out_streams =
        [i \in (DOMAIN w.out_streams) \cup (DOMAIN o.mem) |->
            IF i \in DOMAIN w.out_streams THEN w.out_streams[i] ELSE o.mem[i]]]

\* the array part and the outside part of the memory after a call
InBounds(wv, n) ==
    [wv EXCEPT !.out_streams = [i \in 0..(n - 1) |-> wv.out_streams[i]]]

OutOfBounds(wv, o, op, stream_num, n) ==
    [mem     |-> [i \in DOMAIN o.mem |-> wv.out_streams[i]],
     touched |-> IF stream_num \in 0..(n - 1) THEN o.touched
                 ELSE o.touched \cup { [op |-> op, slot |-> stream_num] }]

\* stream_num arguments: below the array, in it, and past its end
RawStreamNums == {-1, 0, NumStreams}

InitRaw ==
    /\ worker = worker_init(RawWorker, SocketFds, NumStreams)
    /\ \E only_binary_metrics \in BOOLEAN :
           session = session_init(NumGroups, NumStats, only_binary_metrics,
                                  PackedTable(NumStats))
    /\ pc = "idle"
    /\ pass = NoPass
    /\ res = NoResources
    /\ call = NoCall
    /\ ncalls = 0
    /\ wlife = LiveWorker(SocketFds)
    /\ \E mem \in [OobSlots -> GarbageStreams] :
           oob = [mem |-> mem, touched |-> {}]
    /\ NoSessions
    /\ NoPeer
    /\ NoKeys

\* a wrapper's return: r is its result over the addressed memory; the
\* stream slot is dereferenced unless the guard has rejected the call
RawReturn(op, stream_num, t, r) ==
    /\ worker' = InBounds(r.worker, worker.num_streams)
    /\ oob' = IF stream_num >= worker.num_streams
              THEN oob
              ELSE OutOfBounds(r.worker, oob, op, stream_num, worker.num_streams)
    /\ call' = WrapperCall(op, stream_num, t, r)
    /\ ncalls' = ncalls + 1
    /\ UNCHANGED <<session, pc, pass, res, wlife, heap, sess, sample,
                 peer, who, keys, cmp>>

RawStartField ==
    /\ ncalls < MaxCalls
    /\ \E stream_num \in RawStreamNums, term_type \in {"INT"} :
       \E t \in OutcomesFor(stream_num) :
          RawReturn("worker_start_field", stream_num, t,
                    worker_start_field(WithMemory(worker, oob), "age", 3,
                                       term_type, stream_num, t))

RawEndField ==
    /\ ncalls < MaxCalls
    /\ \E stream_num \in RawStreamNums :
       \E t \in OutcomesFor(stream_num) :
          RawReturn("worker_end_field", stream_num, t,
                    worker_end_field(WithMemory(worker, oob), stream_num, t))

RawEndStream ==
    /\ ncalls < MaxCalls
    /\ \E stream_num \in RawStreamNums :
       \E t \in OutcomesFor(stream_num) :
          RawReturn("worker_end_stream", stream_num, t,
                    worker_end_stream(WithMemory(worker, oob), stream_num, t))

\* run_tgs_pass from call to return: stream = &worker->out_streams[stream_num]
\* is taken for any stream_num, the pass writes through it and the error
\* capture reads it
RawRunTgsPass ==
    /\ ncalls < MaxCalls
    /\ \E stream_num \in RawStreamNums, shards \in ShardLists,
          fail \in FlushFailures :
          LET wv == WithMemory(worker, oob)
              r  == tgs_execute_pass(session, wv.out_streams[stream_num],
                                     shards, fail)
              w1 == [wv EXCEPT !.out_streams[stream_num] = r.stream]
              w2 == capture_stream_error(w1, stream_num, r.err)
          IN  /\ fail.at <= Cardinality(GroupsOf(shards))
              /\ session' = r.session
              /\ worker' = InBounds(w2, worker.num_streams)
              /\ oob' = OutOfBounds(w2, oob, "run_tgs_pass", stream_num,
                                    worker.num_streams)
              /\ call' = [op |-> "run_tgs_pass", stream_num |-> stream_num,
                          ret |-> r.err, delegated |-> TRUE, op_ret |-> r.err,
                          terr |-> fail.err, groups |-> GroupsOf(shards),
                          failed_at |-> fail.at]
    /\ res' = pass_cleanup(pass_setup(res))
    /\ ncalls' = ncalls + 1
    /\ UNCHANGED <<pc, pass, wlife, heap, sess, sample,
                 peer, who, keys, cmp>>

NextRaw ==
    \/ RawStartField
    \/ RawEndField
    \/ RawEndStream
    \/ RawRunTgsPass

SpecRaw == InitRaw /\ [][NextRaw]_vars

(* ------------------------ lifetime of sessions ------------------------- *)
\* which of the four allocations of a session_init succeed
AllocOutcomes ==
    [grp_stats : BOOLEAN, temp_buf : BOOLEAN, grp_buf : BOOLEAN,
     nz_grps_buf : BOOLEAN]

Buffers == {"grp_stats", "temp_buf", "grp_buf", "nz_grps_buf"}

InitSession ==
    /\ worker = worker_init(RawWorker, SocketFds, NumStreams)
    /\ session = session_init(NumGroups, NumStats, FALSE, PackedTable(NumStats))
    /\ pc = "idle"
    /\ pass = NoPass
    /\ res = NoResources
    /\ call = NoCall
    /\ ncalls = 0
    /\ wlife = LiveWorker(SocketFds)
    /\ oob = NoOob
    /\ heap = EmptyHeap
    /\ sess = [i \in SessionIds |-> NoSession]
    /\ \E n_cols \in 1..NumStats : sample = PackedTable(n_cols)
    /\ NoPeer
    /\ NoKeys

SessionFrame == UNCHANGED <<worker, session, pc, pass, res, call, ncalls,
                            wlife, oob, peer, who, keys, cmp>>

\* no session_init has brought the process down
Running == \A i \in SessionIds : sess[i].phase # "crashed"

\* session_init; a session that lacks a buffer is not used, only destroyed.
\* unpacked_table_copy_layout of a NULL table is undefined: it returns a
\* buffer or NULL as ok.temp_buf says, or the process ends in the call
SessionInit(i) ==
    /\ Running
    /\ sess[i].phase = "none"
    /\ \E n_groups \in 1..NumGroups, only_binary_metrics \in BOOLEAN,
          ok \in AllocOutcomes, fault \in BOOLEAN :
          LET r == session_init_at(heap, n_groups, sample.n_cols,
                                   only_binary_metrics, sample, ok) IN
          /\ fault => ~ok.grp_stats
          /\ heap' = IF fault THEN heap ELSE r.heap
          /\ sess' = [sess EXCEPT ![i] =
                        IF fault
                        THEN [phase |-> "crashed",
                              desc  |-> [r.session EXCEPT
                                            !.grp_stats = 0, !.temp_buf = 0,
                                            !.grp_buf = 0, !.nz_grps_buf = 0]]
                        ELSE [phase |-> IF \A b \in Buffers : r.session[b] # 0
                                        THEN "ready" ELSE "failed",
                              desc  |-> r.session]]
    /\ UNCHANGED sample
    /\ SessionFrame

\* the accumulation of a pass: the matching documents of its shards
SessionScan(i) ==
    /\ Running
    /\ sess[i].phase = "ready"
    /\ \E shards \in ShardLists :
          /\ GroupsOf(shards) \subseteq 0..(sess[i].desc.num_groups - 1)
          /\ heap' = Stored(heap, sess[i].desc,
                            scan_shards(Loaded(heap, sess[i].desc), shards))
    /\ sess' = [sess EXCEPT ![i].phase = "scanned"]
    /\ UNCHANGED sample
    /\ SessionFrame

\* the end of a pass: rows and flags of the dirty groups are cleared
SessionReset(i) ==
    /\ Running
    /\ sess[i].phase = "scanned"
    /\ heap' = Stored(heap, sess[i].desc,
                      reset_dirty(Loaded(heap, sess[i].desc)))
    /\ sess' = [sess EXCEPT ![i].phase = "ready"]
    /\ UNCHANGED sample
    /\ SessionFrame

SessionDestroy(i) ==
    /\ Running
    /\ sess[i].phase \in {"ready", "failed"}
    /\ heap' = session_destroy(heap, sess[i].desc)
    /\ sess' = [sess EXCEPT ![i].phase = "destroyed"]
    /\ UNCHANGED sample
    /\ SessionFrame

NextSession ==
    \/ \E i \in SessionIds : SessionInit(i)
    \/ \E i \in SessionIds : SessionScan(i)
    \/ \E i \in SessionIds : SessionReset(i)
    \/ \E i \in SessionIds : SessionDestroy(i)

SpecSession == InitSession /\ [][NextSession]_vars

(* ------------------- workers on concurrent threads --------------------- *)
\* Two threads, each with a worker, its streams and its session. The
\* running thread's structs are in worker, session, pc, pass, res, call and
\* ncalls; those of the other thread are in peer. A context switch can come
\* between any two steps, also between the steps of a pass. Each thread is
\* followed through one call.
Context ==
    [worker |-> worker, session |-> session, pc |-> pc, pass |-> pass,
     res |-> res, call |-> call, ncalls |-> ncalls]

InitWorkers ==
    /\ worker = worker_init(RawWorker, SocketFds, NumStreams)
    /\ \E only_binary_metrics \in BOOLEAN :
          /\ session = session_init(NumGroups, NumStats, only_binary_metrics,
                                    PackedTable(NumStats))
          /\ peer = [worker  |-> worker_init(RawWorker,
                                             [i \in 1..NumStreams |-> 20 + i],
                                             NumStreams),
                     session |-> session_init(NumGroups, NumStats,
                                              only_binary_metrics,
                                              PackedTable(NumStats)),
                     pc |-> "idle", pass |-> NoPass, res |-> NoResources,
                     call |-> NoCall, ncalls |-> MaxCalls - 1]
    /\ pc = "idle"
    /\ pass = NoPass
    /\ res = NoResources
    /\ call = NoCall
    /\ ncalls = MaxCalls - 1
    /\ wlife = LiveWorker(SocketFds)
    /\ oob = NoOob
    /\ NoSessions
    /\ who = 1
    /\ NoKeys

\* the other thread runs from here on
Switch ==
    /\ worker' = peer.worker
    /\ session' = peer.session
    /\ pc' = peer.pc
    /\ pass' = peer.pass
    /\ res' = peer.res
    /\ call' = peer.call
    /\ ncalls' = peer.ncalls
    /\ peer' = Context
    /\ who' = 3 - who
    /\ UNCHANGED <<wlife, oob, heap, sess, sample, keys, cmp>>

NextWorkers ==
    \/ Switch
    \/ WorkerStartField
    \/ WorkerEndField
    \/ WorkerEndStream
    \/ RunTgsPassBegin
    \/ TgsExecutePass
    \/ RunTgsPassEnd

SpecWorkers == InitWorkers /\ [][NextWorkers]_vars

(* --------------------------- Long keys --------------------------------- *)
\* the sampled int64_t values: small multiples of the byte weights and
\* their neighbours, negative ones included
SampleLongs ==
    { k * m + d : k \in (-MaxKey)..MaxKey,
                  m \in {1, 256, 65536, 16777216},
                  d \in {-1, 0, 1} }

InitCodec ==
    /\ worker = worker_init(RawWorker, SocketFds, NumStreams)
    /\ session = session_init(NumGroups, NumStats, FALSE, PackedTable(NumStats))
    /\ pc = "idle"
    /\ pass = NoPass
    /\ res = NoResources
    /\ call = NoCall
    /\ ncalls = 0
    /\ wlife = LiveWorker(SocketFds)
    /\ oob = NoOob
    /\ NoSessions
    /\ NoPeer
    /\ \E x, y \in SampleLongs :
          keys = [x |-> x, y |-> y,
                  a |-> Serialized(x, LONG_BYTES),
                  b |-> Serialized(y, LONG_BYTES)]
    /\ cmp = [op |-> "none", result |-> FALSE, value |-> 0]

CodecFrame == UNCHANGED <<worker, session, pc, pass, res, call, ncalls,
                          wlife, oob, heap, sess, sample, peer, who, keys>>

LongDecode ==
    /\ cmp' = [op |-> "()", result |-> FALSE, value |-> Long_value(keys.a)]
    /\ CodecFrame

LongLess ==
    /\ cmp' = [op |-> "<", result |-> Long_less(keys.a, keys.b), value |-> 0]
    /\ CodecFrame

LongGreater ==
    /\ cmp' = [op |-> ">", result |-> Long_greater(keys.a, keys.b), value |-> 0]
    /\ CodecFrame

LongEqual ==
    /\ cmp' = [op |-> "==", result |-> Long_equal(keys.a, keys.b), value |-> 0]
    /\ CodecFrame

NextCodec ==
    \/ LongDecode
    \/ LongLess
    \/ LongGreater
    \/ LongEqual

SpecCodec == InitCodec /\ [][NextCodec]_vars

(* ======================================================================= *)
(*                              properties                                 *)
(* ======================================================================= *)
WrapperOps == {"worker_start_field", "worker_end_field", "worker_end_stream"}

\* the part of a stream's output that a step appended
Added(old, new) == [i \in 1..(Len(new) - Len(old)) |-> new[Len(old) + i]]

Extends(old, new) == Len(new) >= Len(old) /\ SubSeq(new, 1, Len(old)) = old

\* C1: a wrapper called with stream_num >= num_streams returns a negative
\* value, sets the worker's error code to EBADF and leaves every output
\* stream (output, captured error, framing state) as it was.
C1_InvalidIndexRejected ==
    [][ ( /\ ncalls' = ncalls + 1
          /\ call'.op \in WrapperOps
          /\ call'.stream_num >= worker.num_streams )
        => ( /\ call'.ret < 0
             /\ worker'.error.code = EBADF
             /\ worker'.out_streams = worker.out_streams
             /\ worker'.num_streams = worker.num_streams ) ]_vars

\* an end-stream with index num_streams, after a field was opened
C1_Witness ==
    /\ call.op = "worker_end_stream"
    /\ call.stream_num = worker.num_streams
    /\ call.ret < 0
    /\ worker.error.code = EBADF
    /\ \E n \in DOMAIN worker.out_streams :
          /\ worker.out_streams[n].state = "FIELD_OPEN"
          /\ Len(worker.out_streams[n].written) = 1

HasPiece(str, piece) == \E i \in DOMAIN str : str[i] = piece

\* C2: the message of a rejected wrapper call carries the offending
\* stream index and the worker's stream count.
C2_MessageCarriesIndexAndCount ==
    ( /\ call.op \in WrapperOps
      /\ call.stream_num >= worker.num_streams )
    => ( /\ HasPiece(worker.error.str, IntToStr(call.stream_num))
         /\ HasPiece(worker.error.str, IntToStr(worker.num_streams)) )

\* C3: when the stream operation behind a wrapper fails, on return the
\* worker's error is the error the stream captured, the stream's own error
\* is cleared and the wrapper reports failure.
C3_HandOffOnce ==
    ( /\ call.op \in WrapperOps
      /\ call.delegated
      /\ call.op_ret # 0 )
    => ( /\ worker.error = call.terr
         /\ worker.out_streams[call.stream_num].socket.err.code = 0
         /\ call.ret < 0 )

\* C4: a wrapper returns 0 exactly when its stream operation succeeded, and
\* a negative value with the worker's error populated for every non-zero
\* result of the stream operation.
C4_ReturnMatchesStreamResult ==
    ( /\ call.op \in WrapperOps
      /\ call.delegated )
    => ( /\ (call.ret = 0) <=> (call.op_ret = 0)
         /\ call.op_ret # 0 => ( /\ call.ret < 0
                                 /\ worker.error.code # 0
                                 /\ worker.error = call.terr ) )

PassReturned == pc = "idle" /\ call.op = "run_tgs_pass"

\* C5: run_tgs_pass returns 0 when no write failed and non-zero when one
\* did, and after a non-zero return the worker's error is the error the
\* transport reported to that pass.
C5_PassFailurePopulatesError ==
    PassReturned
    => ( /\ (call.ret = 0) <=> (call.terr = NoError)
         /\ call.ret # 0 => ( /\ worker.error.code # 0
                              /\ worker.error = call.terr ) )

\* a second pass fails on a stream that has output, with the second error
C5_Witness ==
    /\ PassReturned
    /\ ncalls = 2
    /\ call.ret # 0
    /\ worker.error = call.terr
    /\ worker.error.code = 5
    /\ worker.out_streams[call.stream_num].written # <<>>

\* C6: after a pass failed on a stream write, the error is in the worker's
\* slot and the stream's own error is cleared.
C6_PassConsumesStreamError ==
    ( PassReturned /\ call.ret # 0 )
    => ( /\ worker.error = call.terr
         /\ worker.out_streams[call.stream_num].socket.err.code = 0 )

\* C7: every run_tgs_pass constructs one term and one pass descriptor and
\* has destroyed each exactly once when it returns; during the pass exactly
\* one of each is live.
C7_TermAndDescriptorDestroyedOnce ==
    /\ res.term_init = res.passes
    /\ res.tgs_init = res.passes
    /\ pc = "idle" => ( /\ res.term_destroy = res.passes
                        /\ res.tgs_destroy = res.passes )
    /\ pc # "idle" => ( /\ res.term_destroy = res.passes - 1
                        /\ res.tgs_destroy = res.passes - 1 )

\* a second pass that failed has returned
C7_Witness ==
    /\ PassReturned
    /\ call.ret # 0
    /\ res.passes = 2
    /\ res.term_destroy = 2
    /\ res.tgs_destroy = 2

\* C8: when run_tgs_pass has returned, with or without a failure, every
\* flag of the session's dirty-group array is clear.
C8_DirtySetClearAfterPass ==
    PassReturned => \A g \in DOMAIN session.nz_grps_buf : session.nz_grps_buf[g] = 0

\* a pass with two groups to flush that failed on its first record
C8_Witness ==
    /\ PassReturned
    /\ call.ret # 0
    /\ call.failed_at = 1
    /\ Cardinality(call.groups) = 2
    /\ \A g \in DOMAIN session.nz_grps_buf : session.nz_grps_buf[g] = 0

\* the records a step appended to stream sn are those of the n smallest
\* groups of G, one each, in ascending order
WroteSmallest(sn, G, n) ==
    LET old == worker.out_streams[sn].written
        new == worker'.out_streams[sn].written
        added == Added(old, new)
    IN  /\ Extends(old, new)
        /\ Len(added) = n
        /\ \A i \in 1..Len(added) :
              /\ added[i].kind = "record"
              /\ added[i].grp \in G
              /\ Cardinality({ g \in G : g < added[i].grp }) = i - 1

OthersUntouched(sn) ==
    \A m \in DOMAIN worker.out_streams :
        m # sn => worker'.out_streams[m] = worker.out_streams[m]

NothingWritten ==
    \A m \in DOMAIN worker.out_streams :
        worker'.out_streams[m].written = worker.out_streams[m].written

\* C9: a successful pass appends to its stream, after everything earlier
\* passes wrote, exactly one record for each group that has a matching
\* document, in ascending group order, and no other record.
C9_OneRecordPerDirtyGroupAscending ==
    [][ /\ ( pc = "execute" /\ pc' = "executed" /\ pass'.err = 0 )
           => /\ WroteSmallest(pass.desc.stream_num, pass'.groups,
                               Cardinality(pass'.groups))
              /\ OthersUntouched(pass.desc.stream_num)
        /\ ( pc = "executed" /\ pass.err = 0 ) => NothingWritten
        /\ ( pc = "idle" /\ pc' = "execute" ) => NothingWritten ]_vars

\* two passes on one stream: groups 0 and 1, then group 0
C9_Witness ==
    /\ PassReturned
    /\ call.ret = 0
    /\ ncalls = 2
    /\ LET w == worker.out_streams[call.stream_num].written IN
       /\ Len(w) = 3
       /\ \A i \in 1..3 : w[i].kind = "record"
       /\ w[1].grp = 0 /\ w[2].grp = 1 /\ w[3].grp = 0

\* C10: a pass whose Nth record write fails has written exactly the first
\* N-1 records of the term and writes nothing more to the stream.
C10_FlushAbortsAtFailure ==
    [][ /\ ( pc = "execute" /\ pc' = "executed" /\ pass'.failed_at # 0 )
           => /\ WroteSmallest(pass.desc.stream_num, pass'.groups,
                               pass'.failed_at - 1)
              /\ OthersUntouched(pass.desc.stream_num)
              /\ pass'.err # 0
        /\ ( pc = "executed" /\ pass.failed_at # 0 ) => NothingWritten ]_vars

\* the write of the second record failed, the first is on the stream
C10_Witness ==
    /\ PassReturned
    /\ call.ret # 0
    /\ call.failed_at = 2
    /\ ncalls = 1
    /\ Len(worker.out_streams[call.stream_num].written) = 1
    /\ worker.out_streams[call.stream_num].written[1].grp = 0

\* the framing markers among the items a stream has written
Markers(written) == SelectSeq(written, LAMBDA item : item.kind # "record")

\* C11: once a stream has reached STREAM_CLOSED (worker_end_stream succeeded
\* on it) no later call moves it out of that state or writes a further
\* field-start, field-end or stream-end marker to it.
C11_ClosedStreamIsTerminal ==
    [][ \A n \in DOMAIN worker.out_streams :
          worker.out_streams[n].state = "STREAM_CLOSED"
          => /\ worker'.out_streams[n].state = "STREAM_CLOSED"
             /\ Markers(worker'.out_streams[n].written)
                  = Markers(worker.out_streams[n].written) ]_vars

\* C20: a wrapper or a pass that returns 0 leaves the worker's error slot as
\* it was; a call that returns non-zero leaves in the slot the error of that
\* call (the rejection's EBADF or the transport error the stream captured);
\* the steps inside a pass before its return do not write the slot.
C20_ErrorSlotKeepsLastFailure ==
    [][ /\ ( ncalls' = ncalls + 1 /\ call'.ret = 0 )
           => worker'.error = worker.error
        /\ ( ncalls' = ncalls + 1 /\ call'.ret # 0 )
           => IF call'.delegated
              THEN worker'.error = call'.terr
              ELSE worker'.error.code = EBADF
        /\ ncalls' = ncalls => worker'.error = worker.error ]_vars

\* a failed call left its error, a later successful call returned 0 and the
\* slot still holds the earlier error
C20_Witness ==
    /\ ncalls = 2
    /\ pc = "idle"
    /\ call.ret = 0
    /\ worker.error.code # 0

\* C14: worker_init over n handles gives num_streams = n and one stream per
\* handle, in handle order, each IDLE with no captured error and nothing
\* written; worker_destroy releases each of the n streams exactly once, and
\* the array once, whatever framing state the streams are in; nothing is
\* released before.
C14_WorkerInitAndDestroy ==
    LET n == Len(wlife.fds) IN
    /\ wlife.state # "raw"
       => /\ worker.num_streams = n
          /\ DOMAIN worker.out_streams = 0..(n - 1)
          /\ \A i \in 0..(n - 1) :
                worker.out_streams[i].socket.socket_fd = wlife.fds[i + 1]
    /\ ( wlife.state = "live" /\ ncalls = 0 )
       => \A i \in 0..(n - 1) :
             worker.out_streams[i] =
                 [socket  |-> [socket_fd |-> wlife.fds[i + 1], err |-> NoError],
                  state   |-> "IDLE",
                  written |-> <<>>]
    /\ wlife.state = "live"
       => /\ \A i \in 0..(n - 1) : wlife.released[i] = 0
          /\ wlife.array_frees = 0
    /\ wlife.state = "destroyed"
       => /\ DOMAIN wlife.released = 0..(n - 1)
          /\ \A i \in 0..(n - 1) : wlife.released[i] = 1
          /\ wlife.array_frees = 1

\* a destroyed worker of NumStreams streams, created over descending
\* handles, with one stream left with an open field and one closed
C14_Witness ==
    /\ wlife.state = "destroyed"
    /\ Len(wlife.fds) = NumStreams
    /\ wlife.fds[1] > wlife.fds[NumStreams]
    /\ \E i, j \in DOMAIN worker.out_streams :
          /\ worker.out_streams[i].state = "FIELD_OPEN"
          /\ worker.out_streams[j].state = "STREAM_CLOSED"

\* C18: whatever int a wrapper is given as stream_num, it dereferences no
\* stream slot outside out_streams[0..num_streams-1], and a stream_num
\* outside that range, negative ones included, is rejected: negative
\* return, EBADF in the worker's error slot.
C18_WrappersStayInBounds ==
    /\ \A a \in oob.touched : a.op \notin WrapperOps
    /\ ( /\ call.op \in WrapperOps
         /\ call.stream_num \notin 0..(worker.num_streams - 1) )
       => ( /\ ~call.delegated
            /\ call.ret < 0
            /\ worker.error.code = EBADF )

\* C19: run_tgs_pass reads and writes no stream slot outside
\* out_streams[0..num_streams-1], whatever stream_num it is given.
C19_PassStaysInBounds ==
    \A a \in oob.touched : a.op # "run_tgs_pass"

Usable(i) == sess[i].phase \in {"ready", "scanned"}

\* C12: a session that session_init(G, S, flag, sample) has built holds a
\* group table of exactly G rows of S columns, G dirty flags, a scratch
\* buffer of 64 rows with the table's columns and a ring buffer of capacity
\* 64; before its first pass and between passes every cell is zero and every
\* flag is clear; during and after any passes the table still has G rows and
\* the dirty set G flags.
C12_SessionInitSizesBuffers ==
    \A i \in SessionIds :
       Usable(i) =>
          LET v == Loaded(heap, sess[i].desc)
              G == sess[i].desc.num_groups
          IN  /\ DOMAIN v.grp_stats = 0..(G - 1)
              /\ DOMAIN v.nz_grps_buf = 0..(G - 1)
              /\ \A g \in 0..(G - 1) : Len(v.grp_stats[g]) = v.num_stats
              /\ v.num_stats = sample.n_cols
              /\ v.temp_buf.n_rows = 64
              /\ v.temp_buf.n_cols = v.num_stats
              /\ v.grp_buf.capacity = 64
              /\ sess[i].phase = "ready"
                 => /\ \A g \in 0..(G - 1) : v.nz_grps_buf[g] = 0
                    /\ \A g \in 0..(G - 1) :
                          \A c \in 1..v.num_stats : v.grp_stats[g][c] = 0

\* a session of NumGroups groups in the accumulation of a pass, a row
\* counted and its flag set, next to a session between passes
C12_Witness ==
    \E i, j \in SessionIds :
       /\ sess[i].phase = "scanned"
       /\ sess[i].desc.num_groups = NumGroups
       /\ sess[j].phase = "ready"
       /\ LET v == Loaded(heap, sess[i].desc) IN
          \E g \in 0..(NumGroups - 1) :
             v.nz_grps_buf[g] = 1 /\ v.grp_stats[g][1] > 0

\* C13: session_destroy releases every buffer the session holds exactly
\* once, also when session_init could not allocate some of them: no buffer
\* is released twice and no buffer of a destroyed session stays allocated.
C13_DestroyReleasesEachBufferOnce ==
    /\ \A a \in Addrs : heap[a].frees <= 1
    /\ \A i \in SessionIds :
          sess[i].phase = "destroyed"
          => \A b \in Buffers :
                LET p == sess[i].desc[b] IN
                p # 0 => heap[p].status = "freed" /\ heap[p].frees = 1
    /\ \A a \in Addrs :
          heap[a].status = "live"
          => \E i \in SessionIds, b \in Buffers :
                sess[i].phase # "destroyed" /\ sess[i].desc[b] = a

\* a destroyed session that had been given some of its buffers and not
\* others, and a destroyed session that had all four
C13_Witness ==
    \E i, j \in SessionIds :
       /\ sess[i].phase = "destroyed"
       /\ \E b, c \in Buffers : sess[i].desc[b] = 0 /\ sess[i].desc[c] # 0
       /\ sess[j].phase = "destroyed"
       /\ \A b \in Buffers : sess[j].desc[b] # 0

\* the four buffers of a session as the heap holds them
BuffersOf(h, desc) == [b \in Buffers |-> h[desc[b]]]

\* C15: two sessions created from the same sample table hold buffers at
\* distinct addresses; a step of one session (creation, accumulation, reset,
\* destruction) leaves the four buffers of the other as they were, and no
\* step changes the sample table.
C15_SessionsIndependent ==
    [][ /\ sample' = sample
        /\ \A i, j \in SessionIds :
              ( i # j /\ Usable(i) /\ Usable(j) )
              => \A b, c \in Buffers : sess[i].desc[b] # sess[j].desc[c]
        /\ \A j \in SessionIds :
              ( Usable(j) /\ sess'[j] = sess[j] )
              => BuffersOf(heap', sess[j].desc) = BuffersOf(heap, sess[j].desc)
      ]_vars

\* two sessions of the same shape, one in the accumulation of a pass with
\* a row counted, the other with every row still zero
C15_Witness ==
    \E i, j \in SessionIds :
       /\ sess[i].phase = "scanned"
       /\ sess[j].phase = "ready"
       /\ sess[i].desc.num_groups = sess[j].desc.num_groups
       /\ \E g \in 0..(sess[i].desc.num_groups - 1) :
             /\ Loaded(heap, sess[i].desc).grp_stats[g][1] > 0
             /\ Loaded(heap, sess[j].desc).grp_stats[g][1] = 0

\* C16: with workers on concurrent threads, in any interleaving of their
\* steps, a step of the running worker leaves the other worker's error
\* slot, streams, session buffers and call results as they are, and a
\* context switch changes neither worker's state: each worker's results are
\* those of its own calls alone.
C16_WorkersDoNotInterfere ==
    [][ /\ who' = who => peer' = peer
        /\ who' # who => ( peer' = Context /\ Context' = peer ) ]_vars

\* both workers inside a pass at once: one pass has failed on its stream,
\* the other has written its records
C16_Witness ==
    /\ pc = "executed"
    /\ pass.err # 0
    /\ peer.pc = "executed"
    /\ peer.pass.err = 0
    /\ peer.worker.out_streams[peer.pass.desc.stream_num].written # <<>>
    /\ worker.out_streams[pass.desc.stream_num].socket.err.code # 0

\* C17: for two Long keys, views over the 8 bytes of serialized int64
\* values, the codec decodes the value that was serialized and its <, > and
\* == give what the signed comparison of those values gives; the all-ones
\* pattern decodes to -1 and is less than the key of 0; exactly one of <, ==
\* and > holds of a pair.
C17_LongOrderIsSignedOrder ==
    /\ cmp.op = "()" => cmp.value = keys.x
    /\ cmp.op = "<"  => cmp.result = (keys.x < keys.y)
    /\ cmp.op = ">"  => cmp.result = (keys.x > keys.y)
    /\ cmp.op = "==" => cmp.result = (keys.x = keys.y)
    /\ cmp.op # "none"
       => /\ Len(keys.a) = 8 /\ Long_length(keys.a) = 8
          /\ Cardinality({ r \in {"<", "==", ">"} :
                             \/ r = "<"  /\ Long_less(keys.a, keys.b)
                             \/ r = "==" /\ Long_equal(keys.a, keys.b)
                             \/ r = ">"  /\ Long_greater(keys.a, keys.b) }) = 1
          /\ keys.a = [i \in 1..8 |-> 255]
             => /\ Long_value(keys.a) = -1
                /\ Long_less(keys.a, Serialized(0, 8))

\* the key of eight bytes 255 has been compared with the key of 0 and
\* found less
C17_Witness ==
    /\ cmp.op = "<"
    /\ cmp.result
    /\ keys.a = [i \in 1..8 |-> 255]
    /\ keys.b = [i \in 1..8 |-> 0]

====
